---- MODULE Spec2Model ----
(***************************************************************************)
(* Pokedx_React: the List Synchronizer (usePokemonList + the PokemonList   *)
(* pagination controls), the Detail Synchronizer (usePokemonDetails +      *)
(* PokemonDetails) and the Debouncer (useDebounce), as state machines.     *)
(*                                                                         *)
(* React state is modelled as the committed value of each useState cell.   *)
(* Every async function is a process whose position (pc) is the await it   *)
(* is suspended at; the values it closed over at the render that started   *)
(* it are kept in its record (closure).                                    *)
(***************************************************************************)
EXTENDS Integers, Sequences, FiniteSets, TLC

VARIABLES
    state,      \* usePokemonList: pokemonListState (the committed useState cell)
    effectUrl,  \* usePokemonList: the dependency [pokedexUrl] of the last effect run
    loads,      \* usePokemonList: the downloadPokemon() calls, in call order
    trip,       \* observer of the user's Next-then-Previous round trip
    id,         \* PokemonDetails: useParams().id, the route parameter
    searchTerm, \* Pokedex: searchTerm, handed to PokemonDetails as pokemonName
    disposed,   \* the component that owns the synchronizers has been unmounted
    pokemons,   \* usePokemonDetails: the pokemons useState cell
    dpc,        \* usePokemonDetails: position of downloadPokemons()
    requests,   \* usePokemonDetails: URLs downloadPokemons() has requested, in order
    now,        \* useDebounce: the clock of the timer queue
    created,    \* useDebounce: number of useDebounce() calls made (instances)
    timerid,    \* useDebounce: timerid of each instance
    timers,     \* useDebounce: the pending setTimeout entries
    issued,     \* useDebounce: number of setTimeout handles issued
    dlog        \* useDebounce: invocations of the wrapped callables and calls of cb

listVars == <<state, effectUrl, loads, trip>>
detailVars == <<id, searchTerm, disposed, pokemons, dpc, requests>>
debVars == <<now, created, timerid, timers, issued, dlog>>
vars == <<listVars, detailVars, debVars>>

----------------------------------------------------------------------------
(* Bounds of the model *)

NPages == 3
PageSize == 2
MaxLoads == 3
Delay == 2
MaxTime == 4
MaxInvocations == 3
MaxInstances == 2
ManyMembers == 7
FewMembers == 3

----------------------------------------------------------------------------
(* JavaScript values that are not strings of the catalog *)

Null == "null"
Undefined == "undefined"
EmptyString == ""

----------------------------------------------------------------------------
(* The remote catalog service *)

RootUrl == "https://pokeapi.co/api/v2/pokemon"

PageUrl(k) == RootUrl \o "?page=" \o ToString(k)

CatalogUrls == {RootUrl} \cup {PageUrl(k) : k \in 1..NPages}

PageOf(url) == IF url = RootUrl THEN 1 ELSE CHOOSE k \in 1..NPages : PageUrl(k) = url

ItemId(k, i) == (k - 1) * PageSize + i

ItemUrl(n) == RootUrl \o "/" \o ToString(n)

PageData(k) ==
    [next |-> IF k < NPages THEN PageUrl(k + 1) ELSE Null,
     previous |-> IF k > 1 THEN PageUrl(k - 1) ELSE Null,
     results |-> [i \in 1..PageSize |->
                    [name |-> "pokemon" \o ToString(ItemId(k, i)),
                     url |-> ItemUrl(ItemId(k, i))]],
     hasResults |-> TRUE]

\* The body of a response that is not a catalog page (the document served at
\* the empty URL): none of the fields downloadPokemon reads is there.
ForeignData == [next |-> Undefined, previous |-> Undefined, results |-> <<>>, hasResults |-> FALSE]

AxiosGetPage(url) == IF url \in CatalogUrls THEN PageData(PageOf(url)) ELSE ForeignData

SpritesOf(n) ==
    IF n % 6 = 0
    THEN [other |-> "object", dream_world |-> Undefined, front_default |-> Undefined]
    ELSE IF n % 3 = 0
         THEN [other |-> Undefined, dream_world |-> Undefined, front_default |-> Undefined]
         ELSE [other |-> "object", dream_world |-> "object",
               front_default |-> "artwork" \o ToString(n) \o ".svg"]

TypesOf(n) == IF n % 2 = 0 THEN <<"fire">> ELSE <<"grass", "poison">>

ItemData(n) ==
    [id |-> n,
     name |-> "pokemon" \o ToString(n),
     sprites |-> SpritesOf(n),
     order |-> n,
     height |-> 7,
     weight |-> 69,
     hasTypes |-> TRUE,
     types |-> TypesOf(n)]

ItemOfUrl(url) == CHOOSE n \in 1..(NPages * PageSize) : ItemUrl(n) = url

AxiosGetItem(url) == ItemData(ItemOfUrl(url))

----------------------------------------------------------------------------
(* usePokemonList *)

InitialListState ==
    [pokemonList |-> <<>>,
     loading |-> TRUE,
     pokedexUrl |-> RootUrl,
     prevUrl |-> EmptyString,
     nextUrl |-> EmptyString,
     type |-> Undefined]

\* The two setPokemonListState calls after the page response: the functional
\* update, then the object built from the closure, which is the one that stays.
RecordPage(s, closure, data) ==
    LET afterFunctional == [s EXCEPT !.nextUrl = data.next, !.prevUrl = data.next]
    IN  [closure EXCEPT !.nextUrl = data.next, !.prevUrl = data.next]

\* pokemon.sprites.other ? pokemon.sprites.other.dream_world.front_default : pokemon.order
MapThrows(pokemon) ==
    pokemon.sprites.other # Undefined /\ pokemon.sprites.dream_world = Undefined

\* a mapping without the fallback: the image is the artwork field, whatever
\* it holds
MapItemArtworkOnly(pokemon) ==
    [id |-> pokemon.id,
     name |-> pokemon.name,
     image |-> pokemon.sprites.front_default,
     types |-> pokemon.types]

MapItem(pokemon) ==
    [id |-> pokemon.id,
     name |-> pokemon.name,
     image |-> IF pokemon.sprites.other # Undefined
               THEN pokemon.sprites.front_default
               ELSE "order:" \o ToString(pokemon.order),
     types |-> pokemon.types]

\* Faulty variant: the responses in the order they arrived
AxiosAllArrival(load) ==
    [i \in 1..Len(load.results) |-> AxiosGetItem(load.results[load.arrived[i]].url)]

\* axios.all: the responses by request index, whatever order they arrived in
AxiosAll(load) ==
    [i \in 1..Len(load.results) |-> AxiosGetItem(load.results[i].url)]

PokemonProp(load) ==
    LET pokemonData == AxiosAll(load)
    IN  [i \in 1..Len(pokemonData) |-> MapItem(pokemonData[i])]

PokemonPropThrows(load) ==
    \E i \in 1..Len(load.results) : MapThrows(AxiosAll(load)[i])

\* the first of two separate updates: the list alone, loading left for later
CommitListOnly(s, pokemonProp) == [s EXCEPT !.pokemonList = pokemonProp]

Commit(s, pokemonProp) == [s EXCEPT !.pokemonList = pokemonProp, !.loading = FALSE]

\* an effect without a dependency array: it runs after every render
EffectEveryRender == TRUE

\* a join that settles with the first response (Promise.race)
BatchRace(load) == Len(load.arrived) >= 1

\* await axios.all(pokemonResultPromise): resumes when every request of the
\* batch has resolved
BatchComplete(load) == Len(load.arrived) = Len(load.results)

EffectPending == effectUrl # state.pokedexUrl

\* the effects of the last commit have all run (React runs them before the
\* next event is handled)
EffectsFlushed == ~EffectPending /\ dpc # "mount"

\* What is left of a closure once downloadPokemon no longer reads it
Released == [pokemonList |-> <<>>, loading |-> FALSE, pokedexUrl |-> EmptyString,
             prevUrl |-> EmptyString, nextUrl |-> EmptyString, type |-> Undefined]

\* A settled downloadPokemon call: its locals are dead
Settle(load, pc) ==
    [load EXCEPT !.pc = pc, !.closure = Released, !.results = <<>>,
                 !.arrived = IF pc = "done" THEN @ ELSE <<>>]

\* useEffect(() => { downloadPokemon() }, [pokemonListState.pokedexUrl]):
\* downloadPokemon up to its first await.
Effect ==
    /\ ~disposed
    /\ EffectPending
    /\ Len(loads) < MaxLoads
    /\ effectUrl' = state.pokedexUrl
    /\ state' = [state EXCEPT !.loading = TRUE]
    /\ loads' = Append(loads, [url |-> state.pokedexUrl, closure |-> state, pc |-> "page",
                               results |-> <<>>, arrived |-> <<>>])
    /\ UNCHANGED trip

\* downloadPokemon resumed with the page response
PageResponse(g) ==
    /\ EffectsFlushed
    /\ loads[g].pc = "page"
    /\ LET data == AxiosGetPage(loads[g].closure.pokedexUrl)
       IN  /\ state' = RecordPage(state, loads[g].closure, data)
           /\ IF ~data.hasResults
              THEN loads' = [loads EXCEPT ![g] = Settle(@, "threw")]
              ELSE loads' = [loads EXCEPT ![g].pc = "details", ![g].closure = Released,
                                          ![g].results = data.results]
    /\ UNCHANGED <<effectUrl, trip>>

\* the page request is rejected: downloadPokemon's promise rejects, unhandled
PageRejected(g) ==
    /\ EffectsFlushed
    /\ loads[g].pc = "page"
    /\ loads' = [loads EXCEPT ![g] = Settle(@, "rejected")]
    /\ UNCHANGED <<state, effectUrl, trip>>

\* one detail response arrives; with the last one axios.all resolves and
\* downloadPokemon runs to its end
DetailResponse(g, i) ==
    /\ EffectsFlushed
    /\ loads[g].pc = "details"
    /\ i \in 1..Len(loads[g].results)
    /\ \A j \in 1..Len(loads[g].arrived) : loads[g].arrived[j] # i
    /\ LET load == [loads[g] EXCEPT !.arrived = Append(@, i)]
       IN  IF ~BatchComplete(load)
           THEN /\ loads' = [loads EXCEPT ![g] = load]
                /\ UNCHANGED state
           ELSE IF PokemonPropThrows(load)
                THEN /\ loads' = [loads EXCEPT ![g] = Settle(load, "threw")]
                     /\ UNCHANGED state
                ELSE /\ loads' = [loads EXCEPT ![g] = Settle(load, "done")]
                     /\ state' = Commit(state, PokemonProp(load))
    /\ UNCHANGED <<effectUrl, trip>>

\* one detail request is rejected: axios.all rejects at once
DetailRejected(g, i) ==
    /\ EffectsFlushed
    /\ loads[g].pc = "details"
    /\ i \in 1..Len(loads[g].results)
    /\ \A j \in 1..Len(loads[g].arrived) : loads[g].arrived[j] # i
    /\ loads' = [loads EXCEPT ![g] = Settle(@, "rejected")]
    /\ UNCHANGED <<state, effectUrl, trip>>

----------------------------------------------------------------------------
(* PokemonList: the pagination controls *)

\* Faulty variant: the Previous button without its disabled attribute
PrevNeverDisabled(s) == FALSE

PrevDisabled(s) == s.prevUrl \in {Null, Undefined}

NextDisabled(s) == s.nextUrl \in {Null, Undefined}

InFlight(g) == loads[g].pc \in {"page", "details"}

Quiescent == ~EffectPending /\ \A g \in DOMAIN loads : ~InFlight(g)

\* the page the user is looking at: loaded, nothing in flight
Shown(k) ==
    /\ Quiescent
    /\ ~state.loading
    /\ state.pokedexUrl \in CatalogUrls
    /\ PageOf(state.pokedexUrl) = k
    /\ state.pokemonList = [i \in 1..PageSize |-> MapItem(ItemData(ItemId(k, i)))]

\* a click handler that also turns the loading indicator on
SetCursorAndLoading(s, urlToSet) == [s EXCEPT !.pokedexUrl = urlToSet, !.loading = TRUE]

\* setPokemonListState({ ...pokemonListState, pokedexUrl: urlToSet }) with the
\* pokemonListState of the render the button belongs to
SetCursor(s, urlToSet) == [s EXCEPT !.pokedexUrl = urlToSet]

ClickPrevious ==
    /\ ~disposed
    /\ EffectsFlushed
    /\ ~PrevDisabled(state)
    /\ LET urlToSet == state.prevUrl
       IN  state' = SetCursor(state, urlToSet)
    /\ trip' = IF trip.phase = "went" /\ \E k \in 1..NPages : Shown(k)
               THEN [trip EXCEPT !.phase = "back"]
               ELSE [phase |-> "idle", from |-> 0]
    /\ UNCHANGED <<effectUrl, loads>>

ClickNext ==
    /\ ~disposed
    /\ EffectsFlushed
    /\ ~NextDisabled(state)
    /\ LET urlToSet == state.nextUrl
       IN  state' = SetCursor(state, urlToSet)
    /\ trip' = IF \E k \in 1..NPages : Shown(k)
               THEN [phase |-> "went", from |-> PageOf(state.pokedexUrl)]
               ELSE [phase |-> "idle", from |-> 0]
    /\ UNCHANGED <<effectUrl, loads>>

----------------------------------------------------------------------------
(* The List Synchronizer as mounted by PokemonList *)

InitList ==
    /\ state = InitialListState
    /\ effectUrl = Undefined
    /\ loads = <<>>
    /\ trip = [phase |-> "idle", from |-> 0]

IdleDetail ==
    /\ id = Undefined
    /\ searchTerm = EmptyString
    /\ disposed = FALSE
    /\ pokemons = <<>>
    /\ dpc = "unmounted"
    /\ requests = <<>>

InitDebounce ==
    /\ now = 0
    /\ created = 0
    /\ timerid = <<>>
    /\ timers = {}
    /\ issued = 0
    /\ dlog = <<>>

Init == InitList /\ IdleDetail /\ InitDebounce

Next ==
    \/ Effect /\ UNCHANGED <<detailVars, debVars>>
    \/ ClickPrevious /\ UNCHANGED <<detailVars, debVars>>
    \/ ClickNext /\ UNCHANGED <<detailVars, debVars>>
    \/ \E g \in DOMAIN loads : PageResponse(g) /\ UNCHANGED <<detailVars, debVars>>
    \/ \E g \in DOMAIN loads : PageRejected(g) /\ UNCHANGED <<detailVars, debVars>>
    \/ \E g \in DOMAIN loads, i \in 1..PageSize :
          DetailResponse(g, i) /\ UNCHANGED <<detailVars, debVars>>
    \/ \E g \in DOMAIN loads, i \in 1..PageSize :
          DetailRejected(g, i) /\ UNCHANGED <<detailVars, debVars>>

Spec == Init /\ [][Next]_vars

----------------------------------------------------------------------------
(* The remote service as usePokemonDetails uses it *)

NotFoundId == "999999"

Identifiers == {"1", "2", "3", "typeless", "untyped", NotFoundId}

\* what the user may have typed into the search box when PokemonDetails is
\* shown for it
SearchTerms == {"pokemon2"}

ItemByIdUrl(ident) == RootUrl \o "/" \o ident

TypeUrl(typeName) == "https://pokeapi.co/api/v2/type/" \o typeName

\* GET pokemon/<id>: the items of the catalog, one item whose types is the
\* empty array and one whose response has no types field
IdentifiedItem(ident) ==
    IF ident = "typeless" THEN [ItemData(1) EXCEPT !.name = ident, !.types = <<>>]
    ELSE IF ident = "untyped"
         THEN [ItemData(1) EXCEPT !.name = ident, !.hasTypes = FALSE, !.types = <<>>]
         ELSE ItemData(CHOOSE n \in 1..3 : ToString(n) = ident \/ ItemData(n).name = ident)

MembersCount(typeName) == IF typeName = "fire" THEN ManyMembers ELSE FewMembers

\* GET type/<name>: the members of the type; GET type/ lists the types and has
\* no pokemon field
AxiosGetType(typeName) ==
    IF typeName = EmptyString
    THEN [hasPokemon |-> FALSE, pokemon |-> <<>>]
    ELSE [hasPokemon |-> TRUE,
          pokemon |-> [i \in 1..MembersCount(typeName) |->
                         [name |-> typeName \o ToString(i),
                          url |-> ItemByIdUrl(typeName \o ToString(i))]]]

----------------------------------------------------------------------------
(* usePokemonDetails *)

SimilarLimit == 5

EmptyObject == <<>>

\* a slice that keeps every member
SliceAll(members, end) == members

\* Array.prototype.slice(0, end)
Slice(members, end) ==
    SubSeq(members, 1, IF Len(members) < end THEN Len(members) ELSE end)

\* response.data.types ? response.data.types[0].type.name : ''
FirstTypeThrows(data) == data.hasTypes /\ data.types = <<>>

\* the name of the last entry of types instead of the first
LastTypeName(data) == IF data.hasTypes THEN data.types[Len(data.types)] ELSE EmptyString

FirstTypeName(data) == IF data.hasTypes THEN data.types[1] ELSE EmptyString

\* building the object given to setPokemons throws a TypeError
DetailsThrow(data, sameType) ==
    \/ data.sprites.other = Undefined
    \/ data.sprites.dream_world = Undefined
    \/ ~data.hasTypes
    \/ ~sameType.hasPokemon

\* the detail written before the category members are known
DetailsWithoutSimilar(data, sameType) ==
    [name |-> data.name,
     image |-> data.sprites.front_default,
     height |-> data.height,
     weight |-> data.weight,
     types |-> data.types]

Details(data, sameType) ==
    [name |-> data.name,
     image |-> data.sprites.front_default,
     height |-> data.height,
     weight |-> data.weight,
     types |-> data.types,
     similarPokemons |-> Slice(sameType.pokemon, SimilarLimit)]

\* setPokemonListState({ ...pokemonListState, type: ... }) with the
\* pokemonListState of the render that ran the effect, the first one
WriteType(closure, data) == [closure EXCEPT !.type = FirstTypeName(data)]

\* const {id} = useParams(); usePokemonDetails(id): the pokemonName prop is
\* not read
HookIdentifier(routeId, pokemonName) == routeId

\* the id downloadPokemons closed over: the one of the render that ran the effect
FetchedId == CHOOSE ident \in Identifiers \cup {Undefined} : ItemByIdUrl(ident) = requests[1]

\* the service has an item for the identifier
Found(ident) == ident \notin {NotFoundId, Undefined}

\* useEffect(() => { downloadPokemons() }, []): downloadPokemons up to its
\* first await
DetailsMount ==
    /\ ~disposed
    /\ dpc = "mount"
    /\ ~EffectPending
    /\ dpc' = "item"
    /\ requests' = Append(requests, ItemByIdUrl(HookIdentifier(id, searchTerm)))
    /\ UNCHANGED <<id, searchTerm, disposed, pokemons>>

\* the route parameter changes while PokemonDetails stays mounted
\* (/pokemon/A -> /pokemon/B): a re-render, and no effect whose dependencies
\* changed
ChangeId ==
    /\ ~disposed
    /\ EffectsFlushed
    /\ searchTerm = EmptyString
    /\ \E other \in Identifiers \ {id} : id' = other
    /\ UNCHANGED <<searchTerm, disposed, pokemons, dpc, requests>>

\* the owning component unmounts: neither useEffect returns a cleanup, so the
\* requests in flight stay in flight and their continuations still call the
\* setters of the disposed state
Unmount ==
    /\ ~disposed
    /\ EffectsFlushed
    /\ disposed' = TRUE
    /\ UNCHANGED <<id, searchTerm, pokemons, dpc, requests>>

\* downloadPokemons resumed with the item response: the type request follows
ItemResponse ==
    /\ EffectsFlushed
    /\ dpc = "item"
    /\ Found(FetchedId)
    /\ LET data == IdentifiedItem(FetchedId)
       IN  IF FirstTypeThrows(data)
           THEN /\ dpc' = "threw"
                /\ UNCHANGED requests
           ELSE /\ dpc' = "type"
                /\ requests' = Append(requests, TypeUrl(FirstTypeName(data)))
    /\ UNCHANGED <<id, searchTerm, disposed, pokemons>>

\* the item request is rejected (not found, or the network failed)
ItemRejected ==
    /\ EffectsFlushed
    /\ dpc = "item"
    /\ dpc' = "rejected"
    /\ UNCHANGED <<id, searchTerm, disposed, pokemons, requests>>

\* downloadPokemons resumed with the type response, to its end
TypeResponse ==
    /\ EffectsFlushed
    /\ dpc = "type"
    /\ LET data == IdentifiedItem(FetchedId)
           sameType == AxiosGetType(FirstTypeName(data))
       IN  IF DetailsThrow(data, sameType)
           THEN /\ dpc' = "threw"
                /\ UNCHANGED <<pokemons, state>>
           ELSE /\ dpc' = "done"
                /\ pokemons' = Details(data, sameType)
                /\ state' = WriteType(InitialListState, data)
    /\ UNCHANGED <<id, searchTerm, disposed, requests, effectUrl, loads, trip>>

\* the type request is rejected
TypeRejected ==
    /\ EffectsFlushed
    /\ dpc = "type"
    /\ dpc' = "rejected"
    /\ UNCHANGED <<id, searchTerm, disposed, pokemons, requests>>

----------------------------------------------------------------------------
(* PokemonDetails *)

\* {pokemons.types && ( ... )}
RelatedShown == "types" \in DOMAIN pokemons

----------------------------------------------------------------------------
(* The Detail Synchronizer as mounted by PokemonDetails, with the List
   Synchronizer that usePokemonDetails creates *)

InitDetail ==
    /\ InitList
    /\ \/ searchTerm = EmptyString /\ id \in Identifiers
       \/ searchTerm \in SearchTerms /\ id = Undefined
    /\ disposed = FALSE
    /\ pokemons = EmptyObject
    /\ dpc = "mount"
    /\ requests = <<>>
    /\ InitDebounce

NextDetail ==
    \/ Effect /\ UNCHANGED <<detailVars, debVars>>
    \/ \E g \in DOMAIN loads : PageResponse(g) /\ UNCHANGED <<detailVars, debVars>>
    \/ \E g \in DOMAIN loads : PageRejected(g) /\ UNCHANGED <<detailVars, debVars>>
    \/ \E g \in DOMAIN loads, i \in 1..PageSize :
          DetailResponse(g, i) /\ UNCHANGED <<detailVars, debVars>>
    \/ \E g \in DOMAIN loads, i \in 1..PageSize :
          DetailRejected(g, i) /\ UNCHANGED <<detailVars, debVars>>
    \/ DetailsMount /\ UNCHANGED <<listVars, debVars>>
    \/ ItemResponse /\ UNCHANGED <<listVars, debVars>>
    \/ ItemRejected /\ UNCHANGED <<listVars, debVars>>
    \/ TypeResponse /\ UNCHANGED debVars
    \/ TypeRejected /\ UNCHANGED <<listVars, debVars>>
    \/ ChangeId /\ UNCHANGED <<listVars, debVars>>

SpecDetail == InitDetail /\ [][NextDetail]_vars

\* the same, with the component unmounting at any moment
NextUnmount ==
    \/ NextDetail
    \/ Unmount /\ UNCHANGED <<listVars, debVars>>

SpecUnmount == InitDetail /\ [][NextUnmount]_vars

----------------------------------------------------------------------------
(* useDebounce *)

Args == {"pika", "pikachu"}

\* Faulty variant: the pending timer is left running
ClearTimeoutNothing(pending, handle) == pending

\* clearTimeout(timerid): no effect when timerid is undefined (0) or has fired
\* one timer handle shared by every debouncer: clearing it cancels them all
ClearTimeoutAll(pending, handle) == {}

ClearTimeout(pending, handle) == {t \in pending : t.handle # handle}

\* Faulty variant: the call is scheduled with no delay
DueAtOnce(t) == t

\* setTimeout(..., delay) called at time t
Due(t) == t + Delay

\* useDebounce(cb, delay): a new closure with its own timerid, undefined (0)
UseDebounce ==
    /\ created < MaxInstances
    /\ created' = created + 1
    /\ timerid' = Append(timerid, 0)
    /\ UNCHANGED <<now, timers, issued, dlog>>

\* the wrapped callable of instance d is invoked with args
Invoke(d, args) ==
    /\ issued < MaxInvocations
    /\ LET handle == issued + 1
       IN  /\ timers' = ClearTimeout(timers, timerid[d])
                          \cup {[handle |-> handle, inst |-> d, due |-> Due(now), args |-> args]}
           /\ timerid' = [timerid EXCEPT ![d] = handle]
           /\ issued' = handle
    /\ dlog' = Append(dlog, [kind |-> "invoke", inst |-> d, at |-> now, args |-> args])
    /\ UNCHANGED <<now, created>>

\* a pending timer expires: cb(...args)
Fire(t) ==
    /\ t.due <= now
    /\ timers' = timers \ {t}
    /\ dlog' = Append(dlog, [kind |-> "call", inst |-> t.inst, at |-> now, args |-> t.args])
    /\ UNCHANGED <<now, created, timerid, issued>>

\* time passes; an expired timer runs before the clock moves on
Tick ==
    /\ now < MaxTime
    /\ \A t \in timers : t.due > now
    /\ now' = now + 1
    /\ UNCHANGED <<created, timerid, timers, issued, dlog>>

NextDebounce ==
    \/ UseDebounce /\ UNCHANGED <<listVars, detailVars>>
    \/ \E d \in 1..created, args \in Args : Invoke(d, args) /\ UNCHANGED <<listVars, detailVars>>
    \/ \E t \in timers : Fire(t) /\ UNCHANGED <<listVars, detailVars>>
    \/ Tick /\ UNCHANGED <<listVars, detailVars>>

SpecDebounce == Init /\ [][NextDebounce]_vars

----------------------------------------------------------------------------
(* Search, inside Pokedex: const debounce = useDebounce(updateSearchTerm, 1000)
   is evaluated on every render of Search, and the input's onChange calls the
   debounce of the latest render *)

\* an input that keeps its text in state: every keystroke renders Search again
KeystrokeRendersAlways == TRUE

\* onChange={(e) => debounce(e.target.value)} sets no state: a keystroke does
\* not render Search again
KeystrokeRenders == FALSE

\* Search renders: useDebounce is called and gives the instance the input uses
\* from now on
RenderSearch(ids) == Append(ids, 0)

\* Pokedex and Search are mounted
SearchMount ==
    /\ created = 0
    /\ created' = 1
    /\ timerid' = RenderSearch(timerid)
    /\ UNCHANGED <<now, timers, issued, dlog, searchTerm>>

\* the user types: onChange calls the debounce of the last render
Keystroke(args) ==
    /\ created >= 1
    /\ issued < MaxInvocations
    /\ LET handle == issued + 1
           d == created
           ids == [timerid EXCEPT ![d] = handle]
       IN  /\ timers' = ClearTimeout(timers, timerid[d])
                          \cup {[handle |-> handle, inst |-> d, due |-> Due(now), args |-> args]}
           /\ issued' = handle
           /\ IF KeystrokeRenders /\ created < MaxInstances
              THEN created' = created + 1 /\ timerid' = RenderSearch(ids)
              ELSE created' = created /\ timerid' = ids
    /\ dlog' = Append(dlog, [kind |-> "invoke", inst |-> created, at |-> now, args |-> args])
    /\ UNCHANGED <<now, searchTerm>>

\* a pending timer expires: updateSearchTerm(...args), that is setSearchTerm;
\* when the term changes Pokedex renders again, and Search with it
UpdateSearchTerm(t) ==
    /\ t.due <= now
    /\ t.args # searchTerm => created < MaxInstances
    /\ timers' = timers \ {t}
    /\ dlog' = Append(dlog, [kind |-> "call", inst |-> t.inst, at |-> now, args |-> t.args])
    /\ searchTerm' = t.args
    /\ IF t.args # searchTerm
       THEN created' = created + 1 /\ timerid' = RenderSearch(timerid)
       ELSE UNCHANGED <<created, timerid>>
    /\ UNCHANGED <<now, issued>>

SearchFrame == UNCHANGED <<listVars, id, disposed, pokemons, dpc, requests>>

NextSearch ==
    \/ SearchMount /\ SearchFrame
    \/ \E args \in Args : Keystroke(args) /\ SearchFrame
    \/ \E t \in timers : UpdateSearchTerm(t) /\ SearchFrame
    \/ Tick /\ UNCHANGED searchTerm /\ SearchFrame

SpecSearch == Init /\ [][NextSearch]_vars

----------------------------------------------------------------------------
(* Claims about the List Synchronizer, checked under Spec *)

PageList(k) == [i \in 1..PageSize |-> MapItem(ItemData(ItemId(k, i)))]

LastLoad == loads[Len(loads)]

\* C1: whenever loading is false, pokemonList is the complete item list of the
\* page at the current cursor. Stated for the case the claim singles out: Next
\* was clicked on a shown page (nothing else in flight) and the effect of that
\* cursor change has run.
C1_LoadingCoversLoad ==
    (/\ ~EffectPending
     /\ trip.phase = "went"
     /\ ~state.loading)
    => /\ state.pokedexUrl \in CatalogUrls
       /\ state.pokemonList = PageList(PageOf(state.pokedexUrl))

\* C2: once every request of every load has resolved, the committed
\* pokemonList is the page of the most recently requested cursor.
C2_StaleCursorDiscarded ==
    (/\ ~EffectPending
     /\ Len(loads) >= 2
     /\ \A g \in DOMAIN loads : loads[g].pc = "done")
    => state.pokemonList = PageList(PageOf(LastLoad.url))

\* C3: the step that processes a page response leaves nextUrl equal to the
\* response's next and prevUrl equal to the response's previous.
C3_CursorsVerbatim ==
    [][\A g \in DOMAIN loads :
          (loads[g].pc = "page" /\ loads'[g].pc = "details")
          => /\ state'.nextUrl = AxiosGetPage(loads[g].url).next
             /\ state'.prevUrl = AxiosGetPage(loads[g].url).previous]_vars

\* C4: from a shown page with a next cursor, Next, load, Previous leads back
\* to a cursor equivalent to the page's own, and once that load has completed
\* the page's items are shown again.
C4_RoundTrip ==
    (trip.phase = "back" /\ ~EffectPending)
    => /\ state.pokedexUrl \in CatalogUrls
       /\ PageOf(state.pokedexUrl) = trip.from
       /\ (Quiescent /\ LastLoad.pc = "done" => Shown(trip.from))

\* C5: the cursor is never null, and a control whose URL is null is disabled.
C5_ControlsGuardNull ==
    /\ state.pokedexUrl # Null
    /\ state.prevUrl = Null => PrevDisabled(state)
    /\ state.nextUrl = Null => NextDisabled(state)

\* C5 witness: the last page's response has been recorded, both URLs are null
C5_Witness ==
    /\ ~EffectPending
    /\ state.pokedexUrl = PageUrl(NPages)
    /\ state.nextUrl = Null
    /\ state.prevUrl = Null
    /\ PrevDisabled(state) /\ NextDisabled(state)

\* C6: a committed pokemonList has, at every index i, the detail of
\* results[i] of one page response.
C6_OrderInvariant ==
    state.pokemonList # <<>> =>
        \E k \in 1..NPages :
            /\ Len(state.pokemonList) = Len(PageData(k).results)
            /\ \A i \in 1..Len(state.pokemonList) :
                  state.pokemonList[i].name = PageData(k).results[i].name

\* C6 witness: a load whose last detail resolved first has committed its page
C6_Witness ==
    \E g \in DOMAIN loads :
        /\ loads[g].pc = "done"
        /\ loads[g].arrived[1] = PageSize
        /\ ~state.loading
        /\ state.pokemonList = PageList(PageOf(loads[g].url))

\* C7: after a rejection, once nothing is in flight any more, loading is false
\* (an error state is shown instead of the loading indicator).
C7_RejectionSurfaces ==
    (Quiescent /\ Len(loads) >= 1 /\ LastLoad.pc = "rejected") => ~state.loading

----------------------------------------------------------------------------
(* Claims about the Debouncer, checked under SpecDebounce *)

InvocationsOf(d) == {j \in DOMAIN dlog : dlog[j].kind = "invoke" /\ dlog[j].inst = d}

CallsOf(d) == {j \in DOMAIN dlog : dlog[j].kind = "call" /\ dlog[j].inst = d}

LastInvocation(d) == CHOOSE j \in InvocationsOf(d) : \A k \in InvocationsOf(d) : k <= j

FirstInvocation(d) == CHOOSE j \in InvocationsOf(d) : \A k \in InvocationsOf(d) : j <= k

CallsAfterLast(d) == {j \in CallsOf(d) : j > LastInvocation(d)}

\* C8: a wrapped callable that was never invoked never calls cb; after the
\* last invocation at most one call of cb is made, it carries the arguments of
\* that invocation and is made Delay after it, and once Delay has passed it
\* has been made.
C8_TrailingCall ==
    \A d \in 1..created :
        IF InvocationsOf(d) = {}
        THEN CallsOf(d) = {}
        ELSE LET last == dlog[LastInvocation(d)]
             IN  /\ Cardinality(CallsAfterLast(d)) <= 1
                 /\ \A j \in CallsAfterLast(d) :
                       dlog[j].args = last.args /\ dlog[j].at = last.at + Delay
                 /\ now > last.at + Delay => Cardinality(CallsAfterLast(d)) = 1

\* C8 witness: a burst of invocations with different arguments, closer than
\* Delay apart, answered by one single call of cb
C8_Witness ==
    \E d \in 1..created :
        /\ Cardinality(InvocationsOf(d)) >= 2
        /\ dlog[FirstInvocation(d)].args # dlog[LastInvocation(d)].args
        /\ dlog[FirstInvocation(d)].at < dlog[LastInvocation(d)].at
        /\ Cardinality(CallsOf(d)) = 1
        /\ CallsAfterLast(d) = CallsOf(d)

\* the invocations of d so far are each less than Delay after the one before,
\* and less than Delay has passed since the last
Streaming(d) ==
    /\ InvocationsOf(d) # {}
    /\ \A j, k \in InvocationsOf(d) :
          (j < k /\ \A m \in InvocationsOf(d) : ~(j < m /\ m < k))
          => dlog[k].at - dlog[j].at < Delay
    /\ now - dlog[LastInvocation(d)].at < Delay

\* C9: while the invocations of one wrapped callable keep arriving less than
\* Delay apart, cb has not been called.
C9_NoMaximumWait == \A d \in 1..created : Streaming(d) => CallsOf(d) = {}

\* C9 witness: a stream that has gone on for longer than Delay, still no call
C9_Witness ==
    \E d \in 1..created :
        /\ Streaming(d)
        /\ now - dlog[FirstInvocation(d)].at > Delay
        /\ CallsOf(d) = {}

----------------------------------------------------------------------------
(* Claims about the Detail Synchronizer, checked under SpecDetail *)

ZeroTypes(data) == ~data.hasTypes \/ data.types = <<>>

ItemFetched == dpc \in {"type", "threw", "done"} \/ (dpc = "rejected" /\ Len(requests) = 2)

\* C10: when the fetched detail has no types, no category-lookup request is
\* issued, and once downloadPokemons has ended the load has completed with an
\* empty similarPokemons and the related-items section is not shown.
C10_ZeroCategories ==
    (ItemFetched /\ Found(FetchedId) /\ ZeroTypes(IdentifiedItem(FetchedId)))
    => /\ Len(requests) = 1
       /\ dpc = "done"
       /\ "similarPokemons" \in DOMAIN pokemons
       /\ pokemons.similarPokemons = <<>>
       /\ ~RelatedShown

\* the members the service lists for the first type of the fetched item
ServiceMembers == AxiosGetType(FirstTypeName(IdentifiedItem(FetchedId))).pokemon

Min(a, b) == IF a < b THEN a ELSE b

\* C11: once the detail is loaded, similarPokemons is exactly the first
\* min(5, |M|) members of the list M the service returned for the category, in
\* the service's order: never more than 5, never re-ordered.
C11_CategoryTruncation ==
    dpc = "done"
    => /\ Len(pokemons.similarPokemons) = Min(SimilarLimit, Len(ServiceMembers))
       /\ Len(pokemons.similarPokemons) <= SimilarLimit
       /\ \A i \in 1..Len(pokemons.similarPokemons) :
             pokemons.similarPokemons[i] = ServiceMembers[i]

\* a detail loaded for a category with more than 5 members
C11_Witness ==
    /\ dpc = "done"
    /\ Len(ServiceMembers) > SimilarLimit
    /\ Len(pokemons.similarPokemons) = SimilarLimit

\* the hook is mounted for a route identifier and its effects have run
Rendered == dpc \notin {"unmounted", "mount"} /\ ~EffectPending /\ searchTerm = EmptyString

Requested(ident) == \E j \in DOMAIN requests : requests[j] = ItemByIdUrl(ident)

\* C12: the detail synchronizer re-runs on every identifier change: once the
\* hook has rendered with identifier B and its effects have run, a fetch for
\* B has been issued.
C12_ResyncOnIdChange == Rendered => Requested(id)

\* C13: an identifier the service does not know leads to an explicit NotFound
\* state: once its request has settled, the detail state is no longer the
\* initial empty object that the view shows while loading.
C13_NotFoundState ==
    (dpc = "rejected" /\ Len(requests) = 1 /\ ~Found(FetchedId)) => DOMAIN pokemons # {}

\* a downloadPokemon call starts in this step
LoadStarts == Len(loads') = Len(loads) + 1

\* the cursor is not the one the last started load was started for (on mount:
\* no load was started yet)
CursorChanged == effectUrl # state.pokedexUrl

\* C14: every change of the cursor pokedexUrl starts exactly one new load for
\* the new cursor, and no page fetch is started other than on mount or on a
\* cursor change: a step starts at most one load; a load starts only while the
\* cursor differs from the one last loaded (none on mount), it fetches the
\* current cursor and settles the change; a step that changes the cursor
\* leaves the change to be served, and the next step is that start.
C14_OneLoadPerCursorChange ==
    [][/\ Len(loads') \in {Len(loads), Len(loads) + 1}
       /\ LoadStarts => /\ CursorChanged
                        /\ loads'[Len(loads')].url = state.pokedexUrl
                        /\ loads'[Len(loads')].pc = "page"
                        /\ state'.pokedexUrl = state.pokedexUrl
                        /\ ~CursorChanged'
       /\ state'.pokedexUrl # state.pokedexUrl => ~LoadStarts /\ CursorChanged'
       /\ CursorChanged => LoadStarts]_vars

\* a click moved the cursor off the first page and one load was started for it
C14_Witness ==
    /\ Len(loads) = 2
    /\ ~CursorChanged
    /\ state.pokedexUrl = PageUrl(2)
    /\ LastLoad.url = PageUrl(2)
    /\ trip.phase = "went"

\* the list is the whole page of a load whose detail requests have all resolved
WholePageOfResolvedBatch(list) ==
    \E g \in 1..Len(loads) :
        /\ loads[g].pc = "done"
        /\ loads[g].url \in CatalogUrls
        /\ {loads[g].arrived[j] : j \in 1..Len(loads[g].arrived)} = 1..PageSize
        /\ list = PageList(PageOf(loads[g].url))

\* C15: all-or-nothing join: a pokemonList that holds items is the whole page
\* (one item per summary, in order) of a single load all of whose detail
\* requests have resolved; no state holds a partial page or a mixture of two
\* pages, and a load is done only once each of its requests has resolved.
C15_AllOrNothingJoin ==
    /\ state.pokemonList = <<>> \/ WholePageOfResolvedBatch(state.pokemonList)
    /\ \A g \in 1..Len(loads) :
          loads[g].pc = "done" => Len(loads[g].arrived) = PageSize

\* the second page's batch has one response in, one still out, and the list
\* still is the first page
C15_Witness ==
    /\ state.pokemonList = PageList(1)
    /\ \E g \in 1..Len(loads) :
          /\ loads[g].pc = "details"
          /\ loads[g].results = PageData(2).results
          /\ Len(loads[g].arrived) = 1

\* sprites.other is missing, or present without dream_world/front_default
ArtworkMissing(data) ==
    \/ data.sprites.other = Undefined
    \/ data.sprites.dream_world = Undefined
    \/ data.sprites.front_default = Undefined

\* C16: missing artwork never fails a load: when the fetched detail has no
\* artwork and the category response has arrived, the detail synchronizer has
\* completed the load with an image value; and no downloadPokemon call of the
\* list synchronizer on a page of the catalog ends in an error.
C16_MissingArtworkSubstituted ==
    /\ (/\ dpc \in {"threw", "done"}
        /\ Len(requests) = 2
        /\ ArtworkMissing(IdentifiedItem(FetchedId)))
       => dpc = "done" /\ "image" \in DOMAIN pokemons
    /\ \A g \in 1..Len(loads) :
          loads[g].url \in CatalogUrls => loads[g].pc # "threw"

\* this step records the page response of some downloadPokemon call
PageRecorded ==
    /\ Len(loads') = Len(loads)
    /\ \E g \in 1..Len(loads) :
          loads[g].pc = "page" /\ loads'[g].pc \in {"details", "threw"}

\* C17: the step that records the page response changes only nextUrl and
\* prevUrl: pokedexUrl, pokemonList and loading keep the values they had
\* immediately before the step.
C17_PageStepFrame ==
    [][PageRecorded => /\ state'.pokedexUrl = state.pokedexUrl
                       /\ state'.pokemonList = state.pokemonList
                       /\ state'.loading = state.loading]_vars

\* the calls to cb scheduled and not yet run or cancelled, of instance d
PendingOf(pending, d) == {t \in pending : t.inst = d}

\* C18: within one debouncer instance an invocation cancels the call the
\* previous invocation scheduled, so at most one call is pending per instance;
\* and a pending call only ever disappears through its own instance (a new
\* invocation of that instance, or its own expiry): two debouncers never
\* cancel each other's pending call.
C18_OnePendingPerInstance ==
    [][/\ \A d \in 1..created' : Cardinality(PendingOf(timers', d)) <= 1
       /\ \A t \in timers \ timers' :
             /\ Len(dlog') = Len(dlog) + 1
             /\ dlog'[Len(dlog')].inst = t.inst]_vars

\* instance 1 invoked, instance 2 invoked, instance 1 invoked again: the first
\* call of instance 1 is cancelled, the call of instance 2 is still pending
C18_Witness ==
    /\ Len(dlog) = 3
    /\ dlog[1].inst = 1 /\ dlog[2].inst = 2 /\ dlog[3].inst = 1
    /\ \A j \in 1..3 : dlog[j].kind = "invoke"
    /\ {t.handle : t \in PendingOf(timers, 1)} = {3}
    /\ {t.handle : t \in PendingOf(timers, 2)} = {2}

\* C19: search-to-detail flow: when the debounced search term is a non-empty
\* name n and PokemonDetails is shown for it, the item detail that is fetched
\* is the one whose identifier is n.
C19_SearchFetchesTerm ==
    (searchTerm # EmptyString /\ dpc \notin {"unmounted", "mount"})
    => requests[1] = ItemByIdUrl(searchTerm)

\* C20: after the owning component has unmounted, no completion of a list
\* load or of a detail load writes to the synchronizers' state.
C20_NoWriteAfterUnmount ==
    [][disposed => state' = state /\ pokemons' = pokemons]_vars

\* downloadPokemon call g commits in this step
Commits(g) == loads[g].pc = "details" /\ loads'[g].pc = "done"

\* C21: a finished load is committed in a single state transition: in the
\* step in which a load commits, pokemonList becomes the mapped array of the
\* load's page and loading becomes false, both at once, and nothing else of
\* the list state changes.
C21_SingleTransitionCommit ==
    [][\A g \in 1..Len(loads) :
         Commits(g) => /\ state'.pokemonList = PageList(PageOf(loads[g].url))
                       /\ state'.loading = FALSE
                       /\ state' = [state EXCEPT !.pokemonList = state'.pokemonList,
                                                 !.loading = FALSE]]_vars

\* the first load has committed while loading was still true: the list is the
\* first page and loading is false
C21_Witness ==
    /\ Len(loads) = 1
    /\ loads[1].pc = "done"
    /\ state.pokemonList = PageList(1)
    /\ state.loading = FALSE

\* C22: the category-lookup request is issued only after the detail response
\* has arrived: it is the second request, appended in the step that receives
\* the item response, after the item request; and it targets the name of
\* entry 0 of the detail's types, never another entry.
C22_CategoryAfterDetail ==
    [][/\ Len(requests') > Len(requests) /\ requests # <<>>
          => /\ dpc = "item" /\ dpc' = "type"
             /\ Len(requests') = 2
             /\ requests'[1] = ItemByIdUrl(FetchedId)
             /\ LET data == IdentifiedItem(FetchedId)
                IN  /\ ~ZeroTypes(data) => requests'[2] = TypeUrl(data.types[1])
                    /\ \A j \in 2..Len(data.types) :
                          data.types[j] # data.types[1]
                          => requests'[2] # TypeUrl(data.types[j])
       /\ Len(requests') = 2 => ItemFetched']_vars

\* the detail of an item with two types has arrived and the lookup for the
\* first of them is in flight
C22_Witness ==
    /\ dpc = "type"
    /\ Len(IdentifiedItem(FetchedId).types) = 2
    /\ requests = <<ItemByIdUrl(FetchedId), TypeUrl("grass")>>

\* a button was clicked in this step: the list state changes and no
\* downloadPokemon call starts or moves on
Clicked == state' # state /\ loads' = loads

\* C23: a Next or Previous click changes only the cursor, to the current
\* nextUrl or prevUrl: the click leaves pokemonList, loading, prevUrl and
\* nextUrl unchanged.
C23_ClickFrame ==
    [][Clicked => /\ state'.pokedexUrl \in {state.nextUrl, state.prevUrl}
                  /\ trip'.phase = "went" => state'.pokedexUrl = state.nextUrl
                  /\ trip'.phase = "back" => state'.pokedexUrl = state.prevUrl
                  /\ state'.pokemonList = state.pokemonList
                  /\ state'.loading = state.loading
                  /\ state'.prevUrl = state.prevUrl
                  /\ state'.nextUrl = state.nextUrl]_vars

\* Next was clicked on the shown first page: the cursor is the second page,
\* the list is still the first page's and loading is still false
C23_Witness ==
    /\ trip = [phase |-> "went", from |-> 1]
    /\ EffectPending
    /\ state.pokedexUrl = PageUrl(2)
    /\ state.pokemonList = PageList(1)
    /\ state.loading = FALSE

\* the list item is the one the claim describes for the detail response d
MappedFrom(item, d) ==
    /\ item.id = d.id
    /\ item.name = d.name
    /\ item.types = d.types
    /\ d.sprites.other # Undefined => item.image = d.sprites.front_default
    /\ d.sprites.other = Undefined => item.image = "order:" \o ToString(d.order)

ServiceCursors ==
    {PageData(k).next : k \in 1..NPages} \cup {PageData(k).previous : k \in 1..NPages}

\* C25: cursor validity: in every reachable state, also before the first page
\* response, pokedexUrl is the root listing URL or a non-empty URL the service
\* returned as next or previous; no enabled control sets it to the empty
\* string.
C25_CursorValid ==
    \/ state.pokedexUrl = RootUrl
    \/ /\ state.pokedexUrl \in ServiceCursors
       /\ state.pokedexUrl \notin {EmptyString, Null, Undefined}

\* C26: no self-sustaining refetch loop: the cursor pokedexUrl changes only by
\* a click; no completion of a fetch changes it and so triggers a further
\* load, so that finitely many clicks give finitely many page fetches.
C26_NoRefetchLoop ==
    [][state'.pokedexUrl # state.pokedexUrl => Clicked]_vars

DetailFields == {"name", "image", "height", "weight", "types", "similarPokemons"}

\* C27: detail state atomicity: pokemons is the empty object, or it has name,
\* image, height, weight, types and similarPokemons all together, written by
\* the one transition that ends downloadPokemons after both requests resolved;
\* in no state is types defined while similarPokemons is undefined.
C27_DetailAtomic ==
    [][/\ DOMAIN pokemons' = {} \/ DOMAIN pokemons' = DetailFields
       /\ RelatedShown' => "similarPokemons" \in DOMAIN pokemons'
       /\ pokemons' # pokemons => /\ dpc = "type" /\ dpc' = "done"
                                  /\ Len(requests) = 2
                                  /\ DOMAIN pokemons = {}]_vars

\* the detail of a grass item is loaded, with all the members of its category
C27_Witness ==
    /\ dpc = "done"
    /\ RelatedShown
    /\ pokemons.types = <<"grass", "poison">>
    /\ Len(pokemons.similarPokemons) = FewMembers

\* C28: request footprint of the detail synchronizer: mounting
\* usePokemonDetails for one identifier issues exactly one item-detail request
\* for that identifier and at most one category-lookup request, and no
\* list-page request and no per-item detail batch.
C28_RequestFootprint ==
    /\ Len(requests) <= 2
    /\ dpc \notin {"unmounted", "mount"} => requests[1] = ItemByIdUrl(FetchedId)
    /\ loads = <<>>

\* the keystrokes logged before position j
KeystrokesBefore(j) == {i \in 1..(j - 1) : dlog[i].kind = "invoke"}

\* C29: over the lifetime of one mounted Search input, with useDebounce called
\* again on every render, at most one delayed call to updateSearchTerm is
\* pending at every moment, and every call to updateSearchTerm comes a full
\* delay after the last keystroke before it, with that keystroke's text.
C29_DebounceAcrossRenders ==
    /\ Cardinality(timers) <= 1
    /\ \A j \in 1..Len(dlog) :
          dlog[j].kind = "call"
          => /\ KeystrokesBefore(j) # {}
             /\ \A i \in KeystrokesBefore(j) : dlog[i].at + Delay <= dlog[j].at
             /\ LET last == CHOOSE i \in KeystrokesBefore(j) :
                                \A k \in KeystrokesBefore(j) : k <= i
                IN  dlog[j].args = dlog[last].args

\* the term was updated, Search rendered again with a new debounce, and a
\* keystroke on the new one is pending
C29_Witness ==
    /\ created = 2
    /\ searchTerm = "pika"
    /\ \E t \in timers : t.inst = 2 /\ t.args = "pikachu"

\* a load has committed: loading is false and the list holds items
Loaded(s) == ~s.loading /\ s.pokemonList # <<>>

\* C30: the loaded state is stable: once a load has committed, loading becomes
\* true again or pokemonList is emptied only as a consequence of a change of
\* pokedexUrl, that is in the step that starts the load for the changed
\* cursor; no other write, the write of type by usePokemonDetails included,
\* reverts it.
C30_LoadedStable ==
    [][(Loaded(state) /\ (state'.loading \/ state'.pokemonList = <<>>))
       => CursorChanged /\ LoadStarts]_vars

====
